---- MODULE Spec2Model ----
(***************************************************************************)
(* The Scaleway Dedibox DNS provider of lego: the zone-version client      *)
(* (providers/dns/scalewaydedibox/internal/client.go) and the DNSProvider  *)
(* that sequences its calls in Present and CleanUp.  Every client call is  *)
(* one step; the registrar API is the environment: it answers a call or    *)
(* fails it.                                                               *)
(***************************************************************************)
EXTENDS Integers, Sequences, FiniteSets, TLC

\* ------------------------------------------------------------------ bounds
\* Present/CleanUp calls made on one provider instance in a behaviour.
MaxOps == 3
\* Versions the zone holds before the provider is first used.
MaxInitVersions == 1

\* ------------------------------------------------------- program constants
DefaultRecordPriority == 12
DefaultTempZoneVersionName == "lego_tmp"
\* d.config.TTL, the default of dns01.
ConfigTTL == 120

\* --------------------------------------------------- the modelled universe
Instances == {"d1"}
Domains == {"example.com"}
\* The temporary-version labels a provider may be configured with.
Labels == {DefaultTempZoneVersionName, "custom_tmp"}
\* Names of the versions a zone holds before the provider is first used.
InitNames == {"prod", DefaultTempZoneVersionName}

\* dns01.FindZoneByFqdn: the authoritative zone, in FQDN form.
FindZoneByFqdn(domain) ==
    CASE domain = "example.com" -> "example.com."
      [] domain = "example.org" -> "example.org."

\* authZone[0 : len(authZone)-1]: the zone without its trailing separator.
DomainName(authZone) ==
    CASE authZone = "example.com." -> "example.com"
      [] authZone = "example.org." -> "example.org"

DomainNames == {DomainName(FindZoneByFqdn(dm)) : dm \in Domains}

\* The identifier the backend gives the n-th version it ever held.
UUIDOf(n) == "uuid-" \o ToString(n)

\* internal.Version{} and internal.Record{}.
ZeroVersion == [UUIDRef |-> "", Name |-> "", Active |-> FALSE]
ZeroRecord == [Type |-> "", Name |-> "", Value |-> "", TTL |-> 0, Priority |-> 0]

Rec(t, n, v, ttl, p) == [Type |-> t, Name |-> n, Value |-> v, TTL |-> ttl, Priority |-> p]

\* ------------------------------------------------------ record type matching
\* The characters of a record type, for the regular expression.
Spelling(t) ==
    CASE t = "A" -> <<"A">>
      [] t = "AAAA" -> <<"A", "A", "A", "A">>
      [] t = "CNAME" -> <<"C", "N", "A", "M", "E">>
      [] t = "MX" -> <<"M", "X">>
      [] t = "SRV" -> <<"S", "R", "V">>
      [] t = "TXT" -> <<"T", "X", "T">>
      [] t = "NS" -> <<"N", "S">>
      [] t = "SOA" -> <<"S", "O", "A">>
      [] t = "CAA" -> <<"C", "A", "A">>
      [] t = "AFSDB" -> <<"A", "F", "S", "D", "B">>
      [] t = "XTXT" -> <<"X", "T", "X", "T">>
      [] t = "TXTX" -> <<"T", "X", "T", "X">>
      [] t = "XMXX" -> <<"X", "M", "X", "X">>
      [] t = "" -> <<>>

AllowList == {"A", "AAAA", "CNAME", "MX", "SRV", "TXT"}

HasPrefix(s, p) == Len(s) >= Len(p) /\ SubSeq(s, 1, Len(p)) = p
HasSuffix(s, p) == Len(s) >= Len(p) /\ SubSeq(s, Len(s) - Len(p) + 1, Len(s)) = p
Contains(s, p) == \E i \in 1..(Len(s) - Len(p) + 1) : SubSeq(s, i, i + Len(p) - 1) = p

\* A mutant: every alternative anchored at both ends.
AllowedTypeExact(t) == t \in AllowList

\* A mutant: TXT left out of the allow-list.
AllowedTypeNoTXT(t) == t \in (AllowList \ {"TXT"})

\* allowedTypesRegexp.MatchString(t) for "^(A)|(AAAA)|(CNAME)|(MX)|(SRV)|(TXT)$":
\* alternation binds loosest, so ^ anchors the first alternative only and $
\* the last only, and MatchString searches anywhere in t.
AllowedType(t) ==
    LET s == Spelling(t) IN
        \/ HasPrefix(s, Spelling("A"))
        \/ Contains(s, Spelling("AAAA"))
        \/ Contains(s, Spelling("CNAME"))
        \/ Contains(s, Spelling("MX"))
        \/ Contains(s, Spelling("SRV"))
        \/ HasSuffix(s, Spelling("TXT"))

\* ------------------------------------------------------------------- state
VARIABLES
    config,      \* the provider's Config: TempZoneVersionName, TTL
    versions,    \* backend: domain name -> the zone's versions, in listing order
    records,     \* backend: version UUID -> the version's records, in listing order
    allocated,   \* backend: how many versions it has ever held
    provider,    \* instance -> the DNSProvider fields activeVersionUUID, tempVersionUUID
    frame,       \* instance -> position and locals of the running Present/CleanUp
    calls,       \* instance -> the client calls of the running (or last) Present/CleanUp
    hist,        \* instance -> the last three Present/CleanUp calls that returned, with what
    ops,         \* instance -> how many Present/CleanUp calls have returned
    cycles,      \* instance -> all calls so far returned nil, Present and CleanUp in turn
    began,       \* instance -> the zone and the instance when the running (or last) call began
    populated,   \* instance -> how the Present that assigned each UUID field ended
    original,    \* the zone's versions before any provider touched it
    result       \* what the latest direct call of a client function returned

vars ==
    <<config, versions, records, allocated, provider, frame, calls, hist, ops, cycles, began,
      populated, original, result>>
backend == <<versions, records, allocated>>
history == <<hist, ops, cycles>>

IdleFrame ==
    [pc |-> "idle", op |-> "", authZone |-> "", before |-> "",
     activeZoneVersion |-> ZeroVersion, temporaryVersion |-> ZeroVersion,
     records |-> <<>>]

NoCall == [op |-> "", ret |-> "", before |-> ""]

\* A client call as logged: the step of Present/CleanUp that made it, the
\* client function, the version UUID in its path, the record it carries,
\* whether the environment let it through (up) and whether it returned nil (ok).
CallOn(step, name, uuid, up, ok, record) ==
    [step |-> step, call |-> name, uuid |-> uuid, up |-> up, ok |-> ok, record |-> record]

Call(step, name, uuid, up, ok) == CallOn(step, name, uuid, up, ok, ZeroRecord)

\* ------------------------------------------------------------ the backend
\* What the registrar API does with a request it does not fail.
ExistsVersion(dn, uuid) == \E i \in 1..Len(versions[dn]) : versions[dn][i].UUIDRef = uuid

VersionByUUID(dn, uuid) ==
    versions[dn][CHOOSE i \in 1..Len(versions[dn]) : versions[dn][i].UUIDRef = uuid]

\* A mutant: the backend gives the new version the identifier of the first.
NewVersionOfFirstUUID(name) == [UUIDRef |-> UUIDOf(1), Name |-> name, Active |-> FALSE]

\* POST /domain/{domain}/version: a new, inactive, empty version.
NewVersion(name) == [UUIDRef |-> UUIDOf(allocated + 1), Name |-> name, Active |-> FALSE]

\* PATCH .../version/{uuid}/enable: this version becomes the only active one.
EnabledVersions(dn, uuid) ==
    [i \in 1..Len(versions[dn]) |->
        [versions[dn][i] EXCEPT !.Active = (versions[dn][i].UUIDRef = uuid)]]

\* A mutant: the backend deletes the active version too.
DeletableThoughActive(dn, uuid) == ExistsVersion(dn, uuid)

\* DELETE .../version/{uuid}: refused for the active version and for no version.
Deletable(dn, uuid) == ExistsVersion(dn, uuid) /\ ~VersionByUUID(dn, uuid).Active

DeletedVersions(dn, uuid) == SelectSeq(versions[dn], LAMBDA v : v.UUIDRef # uuid)

\* -------------------------------------------------------------- the client
\* slices.IndexFunc: the 0-based index of the first element satisfying the
\* predicate, or -1; hits are the (1-based) places of the elements satisfying it.
IndexFunc(hits) ==
    IF hits = {} THEN -1 ELSE (CHOOSE i \in hits : \A j \in hits : i <= j) - 1

\* Client.ListAllVersions, when the request succeeds.
ListAllVersions(authZone) == versions[DomainName(authZone)]

\* Client.FindActiveZoneVersion on a listing: versions[activeidx] with no check
\* of activeidx, so an index of -1 is a run-time panic (index out of range).
FindActiveZoneVersion(vs) ==
    LET activeidx == IndexFunc({i \in 1..Len(vs) : vs[i].Active}) IN
        IF activeidx >= 0 /\ activeidx < Len(vs)
        THEN [panic |-> FALSE, result |-> vs[activeidx + 1]]
        ELSE [panic |-> TRUE, result |-> ZeroVersion]

\* A mutant: the guard compares the version's UUID with the label.
FindZoneVersionByUUID(vs, versionName) ==
    LET activeidx == IndexFunc({i \in 1..Len(vs) : vs[i].UUIDRef = versionName}) IN
        IF activeidx > -1 THEN vs[activeidx + 1] ELSE ZeroVersion

\* Client.FindZoneVersion on a listing.
FindZoneVersion(vs, versionName) ==
    LET activeidx == IndexFunc({i \in 1..Len(vs) : vs[i].Name = versionName}) IN
        IF activeidx > -1 THEN vs[activeidx + 1] ELSE ZeroVersion

\* A mutant: an empty versionUUID is answered with the first listed version.
GetZoneVersionOfListing(authZone, versionUUID, emptyBody) ==
    LET dn == DomainName(authZone) IN
        IF versionUUID = ""
        THEN (IF versions[dn] = <<>> THEN [err |-> TRUE, result |-> ZeroVersion]
              ELSE [err |-> FALSE, result |-> versions[dn][1]])
        ELSE IF ExistsVersion(dn, versionUUID)
             THEN [err |-> FALSE, result |-> VersionByUUID(dn, versionUUID)]
             ELSE [err |-> ~emptyBody, result |-> ZeroVersion]

\* Client.GetZoneVersion.  An empty versionUUID adds nothing to the path
\* (JoinPath drops empty elements): the request is the version listing, whose
\* JSON array does not decode into a Version.  For a UUID the zone does not
\* hold the backend answers non-2xx, or 2xx with an empty object (emptyBody).
GetZoneVersion(authZone, versionUUID, emptyBody) ==
    LET dn == DomainName(authZone) IN
        IF versionUUID = "" THEN [err |-> TRUE, result |-> ZeroVersion]
        ELSE IF ExistsVersion(dn, versionUUID)
             THEN [err |-> FALSE, result |-> VersionByUUID(dn, versionUUID)]
             ELSE [err |-> ~emptyBody, result |-> ZeroVersion]

\* A mutant: the record is looked up by its name alone.
GetRecordByName(allRecords, recordName, recordType) ==
    LET recordIdx == IndexFunc({i \in 1..Len(allRecords) : allRecords[i].Name = recordName}) IN
        IF recordIdx > -1 THEN allRecords[recordIdx + 1] ELSE ZeroRecord

\* Client.GetRecord on the records GetAllRecords returned.
GetRecord(allRecords, recordName, recordType) ==
    LET recordIdx == IndexFunc({i \in 1..Len(allRecords) :
                                   allRecords[i].Name = recordName /\ allRecords[i].Type = recordType}) IN
        IF recordIdx > -1 THEN allRecords[recordIdx + 1] ELSE ZeroRecord

\* A mutant: the request carries the requested name.
CreateZoneVersionPayloadNamed(versionName) == [Name |-> versionName]

\* The payload of Client.CreateZoneVersion: the name is the literal "lego_tmp",
\* the versionName argument is not used.
CreateZoneVersionPayload(versionName) == [Name |-> "lego_tmp"]

\* The payload of Client.CreateRecord: the priority is always the default.
CreateRecordPayload(record) ==
    [Name |-> record.Name, Type |-> record.Type, Priority |-> DefaultRecordPriority,
     TTL |-> record.TTL, Value |-> record.Value]

\* The record DuplicateZoneVersionRecords builds from a source record.
DuplicateOf(r) == Rec(r.Type, r.Name, r.Value, r.TTL, 0)

\* The challenge record Present builds: the name is the challenge FQDN without
\* the zone suffix, the value is the key authorization digest.
ChallengeRecord(authZone) == Rec("TXT", "_acme-challenge", "keyAuthDigest", config.TTL, 0)

\* -------------------------------------------------------------------- Init
\* The zones a provider may meet: up to MaxInitVersions versions, named from
\* InitNames, at most one of them active (none for a zone nothing serves).
InitZones ==
    UNION {
        {z \in [1..n -> [UUIDRef : {""}, Name : InitNames, Active : BOOLEAN]] :
            \A i, j \in 1..n : z[i].Active /\ z[j].Active => i = j}
        : n \in 0..MaxInitVersions}

Stamp(z) == [i \in 1..Len(z) |-> [z[i] EXCEPT !.UUIDRef = UUIDOf(i)]]

\* The record lists the versions of such a zone may hold.
InitRecordSets ==
    { <<>>,
      << Rec("A", "test01", "127.0.0.1", 86400, 0), Rec("NS", "@", "ns0.example.net.", 86400, 0),
         Rec("TXT", "lego", "active_version:thisone", 300, 0),
         Rec("SOA", "@", "ns0.example.net. hostmaster", 3600, 0) >>,
      << Rec("AFSDB", "afs", "1 afs.example.com.", 3600, 0), Rec("MX", "@", "mail.example.com.", 3600, 10) >> }

\* What a direct call of a client function returned: the call, its arguments,
\* and the error, version or record it gave back.
Returned(call, args, err, version, record) ==
    [call |-> call, args |-> args, err |-> err, version |-> version, record |-> record]

NoResult == Returned("", <<>>, FALSE, ZeroVersion, ZeroRecord)

\* The providers named by instances are constructed for a zone whose versions
\* hold one of recordSets.
InitOf(instances, recordSets) ==
    /\ config \in [TempZoneVersionName : Labels, TTL : {ConfigTTL}]
    /\ \E z \in InitZones :
          /\ versions = [dn \in DomainNames |-> Stamp(z)]
          /\ original = Stamp(z)
          /\ allocated = Len(z)
          /\ \E rs \in recordSets :
                records = [u \in {UUIDOf(i) : i \in 1..Len(z)} |-> rs]
    /\ provider = [d \in instances |-> [activeVersionUUID |-> "", tempVersionUUID |-> ""]]
    /\ frame = [d \in instances |-> IdleFrame]
    /\ calls = [d \in instances |-> <<>>]
    /\ hist = [d \in instances |-> [prev2 |-> NoCall, prev |-> NoCall, last |-> NoCall]]
    /\ ops = [d \in instances |-> 0]
    /\ cycles = [d \in instances |-> TRUE]
    /\ began = [d \in instances |->
                  [versions |-> <<>>, records |-> <<>>,
                   provider |-> [activeVersionUUID |-> "", tempVersionUUID |-> ""]]]
    /\ populated = [d \in instances |-> [active |-> "never", temp |-> "never"]]
    /\ result = NoResult

InitWith(recordSets) == InitOf(Instances, recordSets)

Init == InitWith(InitRecordSets)

\* ----------------------------------------------------------- bookkeeping
\* The UUID of the version the zone serves, "" if it serves none.
ActiveUUID(dn) == FindActiveZoneVersion(versions[dn]).result.UUIDRef

\* A Present/CleanUp begins: its frame, and the zone it meets.
Begin(op, authZone) ==
    [IdleFrame EXCEPT !.op = op, !.authZone = authZone,
                      !.before = ActiveUUID(DomainName(authZone))]

Meets(d, authZone) ==
    began' = [began EXCEPT ![d] =
                [versions |-> versions[DomainName(authZone)], records |-> records,
                 provider |-> provider[d]]]

Settled(how, ret) == IF how = "running" THEN (IF ret = "ok" THEN "ok" ELSE "failed") ELSE how

\* The call op of instance d, begun with version before active, returns ret
\* ("ok" for a nil error).
ReturnsFrom(d, op, ret, before) ==
    /\ hist' = [hist EXCEPT ![d] =
                    [prev2 |-> @.prev, prev |-> @.last,
                     last |-> [op |-> op, ret |-> ret, before |-> before]]]
    /\ ops' = [ops EXCEPT ![d] = @ + 1]
    /\ cycles' = [cycles EXCEPT ![d] =
                    @ /\ ret = "ok" /\ (op = "Present") = (hist[d].last.op # "Present")]
    /\ populated' = [populated EXCEPT ![d] =
                        [active |-> Settled(@.active, ret), temp |-> Settled(@.temp, ret)]]
    /\ frame' = [frame EXCEPT ![d] = IdleFrame]

\* The running call of d returns ret.
Returns(d, ret) ==
    /\ ReturnsFrom(d, frame[d].op, ret, frame[d].before)
    /\ UNCHANGED began

\* The running call of d goes on to the step at.
GoesOn(d, at) ==
    /\ frame' = [frame EXCEPT ![d].pc = at]
    /\ UNCHANGED <<history, populated, began>>

Logs(d, c) == calls' = [calls EXCEPT ![d] = Append(@, c)]

\* ----------------------------------------------------------------- Present
\* The error each step of Present returns, "" for none.
\* A mutant: the guard fails on a failed listing only.
ErrVerifyListing(ok, version) == IF ~ok THEN "unable to verify version" ELSE ""

ErrVerify(ok, version) ==
    IF ~ok THEN "unable to verify version"
    ELSE IF version # ZeroVersion THEN "version already exists"
    ELSE ""

ErrFindActive(ok) == IF ~ok THEN "unable to find active version" ELSE ""

ErrCreateVersion(ok) == IF ~ok THEN "unable to create temporary version" ELSE ""

\* A mutant: the error of the duplication is dropped.
NoErrDuplicate(ok) == ""

ErrDuplicate(ok) == IF ~ok THEN "unable to duplicate records" ELSE ""

\* A mutant: the error of creating the challenge record is dropped.
NoErrCreateRecord(ok) == ""

ErrCreateRecord(ok) == IF ~ok THEN "unable to create record" ELSE ""

ErrEnable(ok) == IF ~ok THEN "unable to enable version" ELSE ""

\* Present, guard: FindZoneVersion of the configured label; an error if the
\* listing fails, and if a version of that name exists.
PresentFindZoneVersion(d, domainName, up) ==
    /\ frame[d].pc = "idle"
    /\ LET authZone == FindZoneByFqdn(domainName)
           version == IF up THEN FindZoneVersion(ListAllVersions(authZone),
                                                 config.TempZoneVersionName)
                      ELSE ZeroVersion
           err == ErrVerify(up, version) IN
        /\ calls' = [calls EXCEPT ![d] = <<Call("guard", "ListAllVersions", "", up, up)>>]
        /\ Meets(d, authZone)
        /\ IF err # ""
           THEN ReturnsFrom(d, "Present", err, Begin("Present", authZone).before)
           ELSE /\ frame' = [frame EXCEPT ![d] =
                                [Begin("Present", authZone) EXCEPT !.pc = "FindActiveZoneVersion"]]
                /\ UNCHANGED <<history, populated>>
    /\ UNCHANGED <<result, config, backend, provider, original>>

\* Present, find active version of zone: the listing, then
\* FindActiveZoneVersion; d.activeVersionUUID is assigned on success.
PresentFindActiveZoneVersion(d, up) ==
    /\ frame[d].pc = "FindActiveZoneVersion"
    /\ LET found == IF up THEN FindActiveZoneVersion(ListAllVersions(frame[d].authZone))
                    ELSE [panic |-> FALSE, result |-> ZeroVersion]
           err == ErrFindActive(up) IN
        /\ Logs(d, Call("find-active", "ListAllVersions", "", up, up /\ ~found.panic))
        /\ IF found.panic
           THEN /\ frame' = [frame EXCEPT ![d].pc = "panic"]
                /\ UNCHANGED <<provider, history, populated, began>>
           ELSE IF err # ""
           THEN /\ Returns(d, err)
                /\ UNCHANGED provider
           ELSE /\ provider' = [provider EXCEPT ![d].activeVersionUUID = found.result.UUIDRef]
                /\ populated' = [populated EXCEPT ![d].active = "running"]
                /\ frame' = [frame EXCEPT ![d].pc = "CreateZoneVersion",
                                          ![d].activeZoneVersion = found.result]
                /\ UNCHANGED <<history, began>>
    /\ UNCHANGED <<result, config, backend, original>>

\* Present, create temporary zone version: CreateZoneVersion;
\* d.tempVersionUUID is assigned on success.
PresentCreateZoneVersion(d, up) ==
    /\ frame[d].pc = "CreateZoneVersion"
    /\ LET dn == DomainName(frame[d].authZone)
           jsonResult == IF up
                         THEN NewVersion(CreateZoneVersionPayload(config.TempZoneVersionName).Name)
                         ELSE ZeroVersion
           err == ErrCreateVersion(up) IN
        /\ Logs(d, Call("create-version", "CreateZoneVersion", jsonResult.UUIDRef, up, up))
        /\ versions' = IF up THEN [versions EXCEPT ![dn] = Append(@, jsonResult)] ELSE versions
        /\ records' = IF up THEN (jsonResult.UUIDRef :> <<>>) @@ records ELSE records
        /\ allocated' = IF up THEN allocated + 1 ELSE allocated
        /\ IF err # ""
           THEN /\ Returns(d, err)
                /\ UNCHANGED provider
           ELSE /\ provider' = [provider EXCEPT ![d].tempVersionUUID = jsonResult.UUIDRef]
                /\ populated' = [populated EXCEPT ![d].temp = "running"]
                /\ frame' = [frame EXCEPT ![d].pc = "GetAllRecords",
                                          ![d].temporaryVersion = jsonResult]
                /\ UNCHANGED <<history, began>>
    /\ UNCHANGED <<result, config, original>>

\* Where the loop of DuplicateZoneVersionRecords stands with rs left to visit.
AfterRecords(rs) == IF rs = <<>> THEN "CreateRecord" ELSE "DuplicateRecord"

\* Present, duplicate records: GetAllRecords of the active version.
PresentGetAllRecords(d, up) ==
    /\ frame[d].pc = "GetAllRecords"
    /\ LET source == frame[d].activeZoneVersion.UUIDRef
           ok == up /\ ExistsVersion(DomainName(frame[d].authZone), source)
           listed == IF ok THEN records[source] ELSE <<>>
           err == ErrDuplicate(ok) IN
        /\ Logs(d, Call("duplicate", "GetAllRecords", source, up, ok))
        /\ IF err # ""
           THEN Returns(d, err)
           ELSE /\ frame' = [frame EXCEPT ![d].pc = AfterRecords(listed),
                                          ![d].records = listed]
                /\ UNCHANGED <<history, populated, began>>
    /\ UNCHANGED <<result, config, backend, provider, original>>

\* Present, duplicate records: one turn of the loop, a CreateRecord in the
\* temporary version if the record's type matches, nothing otherwise.
PresentDuplicateRecord(d, up) ==
    /\ frame[d].pc = "DuplicateRecord"
    /\ LET r == Head(frame[d].records)
           rest == Tail(frame[d].records)
           target == frame[d].temporaryVersion.UUIDRef
           ok == up /\ ExistsVersion(DomainName(frame[d].authZone), target)
           err == ErrDuplicate(ok) IN
        IF AllowedType(r.Type)
        THEN /\ Logs(d, CallOn("duplicate", "CreateRecord", target, up, ok, r))
             /\ records' = IF ok THEN [records EXCEPT ![target] =
                                          Append(@, CreateRecordPayload(DuplicateOf(r)))]
                           ELSE records
             /\ IF err # ""
                THEN Returns(d, err)
                ELSE /\ frame' = [frame EXCEPT ![d].pc = AfterRecords(rest),
                                               ![d].records = rest]
                     /\ UNCHANGED <<history, populated, began>>
        ELSE /\ up
             /\ frame' = [frame EXCEPT ![d].pc = AfterRecords(rest), ![d].records = rest]
             /\ UNCHANGED <<records, calls, history, populated, began>>
    /\ UNCHANGED <<result, config, versions, allocated, provider, original>>

\* Present, create challenge record in temporary zone version.
PresentCreateRecord(d, up) ==
    /\ frame[d].pc = "CreateRecord"
    /\ LET target == frame[d].temporaryVersion.UUIDRef
           record == ChallengeRecord(frame[d].authZone)
           ok == up /\ ExistsVersion(DomainName(frame[d].authZone), target)
           err == ErrCreateRecord(ok) IN
        /\ Logs(d, CallOn("challenge", "CreateRecord", target, up, ok, record))
        /\ records' = IF ok THEN [records EXCEPT ![target] =
                                     Append(@, CreateRecordPayload(record))]
                      ELSE records
        /\ IF err # "" THEN Returns(d, err) ELSE GoesOn(d, "EnableZone")
    /\ UNCHANGED <<result, config, versions, allocated, provider, original>>

\* Present, enable zone version: EnableZone of the temporary version.
PresentEnableZone(d, up) ==
    /\ frame[d].pc = "EnableZone"
    /\ LET dn == DomainName(frame[d].authZone)
           target == frame[d].temporaryVersion.UUIDRef
           ok == up /\ ExistsVersion(dn, target)
           err == ErrEnable(ok) IN
        /\ Logs(d, Call("enable", "EnableZone", target, up, ok))
        /\ versions' = IF ok THEN [versions EXCEPT ![dn] = EnabledVersions(dn, target)]
                       ELSE versions
        /\ Returns(d, IF err # "" THEN err ELSE "ok")
    /\ UNCHANGED <<result, config, records, allocated, provider, original>>

\* ----------------------------------------------------------------- CleanUp
\* The error each step of CleanUp returns, "" for none.
\* A mutant: the fetched temporary version is not examined.
NoErrFetchTemp(ok, version) == ""

ErrFetchTemp(ok, version) ==
    IF ~ok THEN "unable to fetch temporary version"
    ELSE IF version = ZeroVersion THEN "no temporary version found"
    ELSE ""

ErrFetchReal(ok, version) ==
    IF ~ok THEN "unable to fetch real version"
    ELSE IF version = ZeroVersion THEN "no real version found"
    ELSE ""

\* A mutant: the error of enabling back is dropped.
NoErrEnableBack(ok) == ""

ErrEnableBack(ok) == IF ~ok THEN "unable to enable back version" ELSE ""

\* A mutant: the error of the deletion is dropped.
NoErrDelete(ok) == ""

ErrDelete(ok) == IF ~ok THEN "unable to delete version" ELSE ""

\* CleanUp, get the temporary zone info: GetZoneVersion of d.tempVersionUUID.
CleanUpGetTempVersion(d, domainName, up, emptyBody) ==
    /\ frame[d].pc = "idle"
    /\ LET authZone == FindZoneByFqdn(domainName)
           got == GetZoneVersion(authZone, provider[d].tempVersionUUID, emptyBody)
           ok == up /\ ~got.err
           tempVersion == IF ok THEN got.result ELSE ZeroVersion
           err == ErrFetchTemp(ok, tempVersion) IN
        /\ calls' = [calls EXCEPT ![d] =
                        <<Call("fetch-temp", "GetZoneVersion", provider[d].tempVersionUUID, up, ok)>>]
        /\ Meets(d, authZone)
        /\ IF err # ""
           THEN ReturnsFrom(d, "CleanUp", err, Begin("CleanUp", authZone).before)
           ELSE /\ frame' = [frame EXCEPT ![d] =
                                [Begin("CleanUp", authZone) EXCEPT !.pc = "GetRealVersion",
                                                                   !.temporaryVersion = tempVersion]]
                /\ UNCHANGED <<history, populated>>
    /\ UNCHANGED <<result, config, backend, provider, original>>

\* CleanUp, get the real zone info: GetZoneVersion of d.activeVersionUUID.
CleanUpGetRealVersion(d, up, emptyBody) ==
    /\ frame[d].pc = "GetRealVersion"
    /\ LET got == GetZoneVersion(frame[d].authZone, provider[d].activeVersionUUID, emptyBody)
           ok == up /\ ~got.err
           realVersion == IF ok THEN got.result ELSE ZeroVersion
           err == ErrFetchReal(ok, realVersion) IN
        /\ Logs(d, Call("fetch-real", "GetZoneVersion", provider[d].activeVersionUUID, up, ok))
        /\ IF err # ""
           THEN Returns(d, err)
           ELSE /\ frame' = [frame EXCEPT ![d].pc = "EnableBack",
                                          ![d].activeZoneVersion = realVersion]
                /\ UNCHANGED <<history, populated, began>>
    /\ UNCHANGED <<result, config, backend, provider, original>>

\* CleanUp, enable back the real zone version: EnableZone of d.activeVersionUUID.
CleanUpEnableZone(d, up) ==
    /\ frame[d].pc = "EnableBack"
    /\ LET dn == DomainName(frame[d].authZone)
           target == provider[d].activeVersionUUID
           ok == up /\ ExistsVersion(dn, target)
           err == ErrEnableBack(ok) IN
        /\ Logs(d, Call("enable-back", "EnableZone", target, up, ok))
        /\ versions' = IF ok THEN [versions EXCEPT ![dn] = EnabledVersions(dn, target)]
                       ELSE versions
        /\ IF err # "" THEN Returns(d, err) ELSE GoesOn(d, "DeleteZoneVersion")
    /\ UNCHANGED <<result, config, records, allocated, provider, original>>

\* CleanUp, delete temporary version: DeleteZoneVersion of d.tempVersionUUID.
CleanUpDeleteZoneVersion(d, up) ==
    /\ frame[d].pc = "DeleteZoneVersion"
    /\ LET dn == DomainName(frame[d].authZone)
           target == provider[d].tempVersionUUID
           ok == up /\ Deletable(dn, target)
           err == ErrDelete(ok) IN
        /\ Logs(d, Call("delete", "DeleteZoneVersion", target, up, ok))
        /\ versions' = IF ok THEN [versions EXCEPT ![dn] = DeletedVersions(dn, target)]
                       ELSE versions
        /\ records' = IF ok THEN [u \in DOMAIN records \ {target} |-> records[u]]
                      ELSE records
        /\ Returns(d, IF err # "" THEN err ELSE "ok")
    /\ UNCHANGED <<result, config, allocated, provider, original>>

\* ------------------------------------------------------------ specification
\* One provider instance makes Present and CleanUp calls one after the other;
\* the environment lets each client call of theirs through (up) or fails it.
Next ==
    \E d \in Instances, up \in BOOLEAN :
        \/ \E domainName \in Domains :
              ops[d] < MaxOps /\ PresentFindZoneVersion(d, domainName, up)
        \/ PresentFindActiveZoneVersion(d, up)
        \/ PresentCreateZoneVersion(d, up)
        \/ PresentGetAllRecords(d, up)
        \/ PresentDuplicateRecord(d, up)
        \/ PresentCreateRecord(d, up)
        \/ PresentEnableZone(d, up)
        \/ \E domainName \in Domains, emptyBody \in BOOLEAN :
              ops[d] < MaxOps /\ CleanUpGetTempVersion(d, domainName, up, emptyBody)
        \/ \E emptyBody \in BOOLEAN : CleanUpGetRealVersion(d, up, emptyBody)
        \/ CleanUpEnableZone(d, up)
        \/ CleanUpDeleteZoneVersion(d, up)

Spec == Init /\ [][Next]_vars

\* ------------------------------------------------------- two providers
\* Two provider instances, each with its own client, used for the same zone
\* at the same time: each runs one Present, their client calls interleaved.
TwoInstances == {"d1", "d2"}

InitTwo == InitOf(TwoInstances, InitRecordSets)

\* The one Present of instance d begins.
PresentOnce(d, domainName, up) ==
    /\ ops[d] = 0
    /\ PresentFindZoneVersion(d, domainName, up)

NextTwo ==
    \E d \in TwoInstances, up \in BOOLEAN :
        \/ \E domainName \in Domains : PresentOnce(d, domainName, up)
        \/ PresentFindActiveZoneVersion(d, up)
        \/ PresentCreateZoneVersion(d, up)
        \/ PresentGetAllRecords(d, up)
        \/ PresentDuplicateRecord(d, up)
        \/ PresentCreateRecord(d, up)
        \/ PresentEnableZone(d, up)

SpecTwo == InitTwo /\ [][NextTwo]_vars

\* --------------------------------------------------------- two zones
\* One provider instance used for two zones in turn: Present for the first,
\* Present for the second, then CleanUp for the first and for the second.
TwoDomains == {"example.com", "example.org"}

Script ==
    << [op |-> "Present", domain |-> "example.com"], [op |-> "Present", domain |-> "example.org"],
       [op |-> "CleanUp", domain |-> "example.com"], [op |-> "CleanUp", domain |-> "example.org"] >>

\* The versions of a zone, identified from the n-th the backend ever held on.
StampFrom(z, n) == [i \in 1..Len(z) |-> [z[i] EXCEPT !.UUIDRef = UUIDOf(n + i)]]

\* The zone of a domain: the authoritative zone without its trailing separator.
ZoneOf(domain) == DomainName(FindZoneByFqdn(domain))

\* Each zone holds versions of its own; identifiers are unique across zones.
InitTwoZones ==
    /\ config \in [TempZoneVersionName : Labels, TTL : {ConfigTTL}]
    /\ \E zA \in InitZones, zB \in InitZones :
          /\ versions = (ZoneOf("example.com") :> Stamp(zA)) @@
                        (ZoneOf("example.org") :> StampFrom(zB, Len(zA)))
          /\ original = Stamp(zA) \o StampFrom(zB, Len(zA))
          /\ allocated = Len(zA) + Len(zB)
          /\ \E rs \in InitRecordSets :
                records = [u \in {UUIDOf(i) : i \in 1..(Len(zA) + Len(zB))} |-> rs]
    /\ provider = [d \in Instances |-> [activeVersionUUID |-> "", tempVersionUUID |-> ""]]
    /\ frame = [d \in Instances |-> IdleFrame]
    /\ calls = [d \in Instances |-> <<>>]
    /\ hist = [d \in Instances |-> [prev2 |-> NoCall, prev |-> NoCall, last |-> NoCall]]
    /\ ops = [d \in Instances |-> 0]
    /\ cycles = [d \in Instances |-> TRUE]
    /\ began = [d \in Instances |->
                  [versions |-> <<>>, records |-> <<>>,
                   provider |-> [activeVersionUUID |-> "", tempVersionUUID |-> ""]]]
    /\ populated = [d \in Instances |-> [active |-> "never", temp |-> "never"]]
    /\ result = NoResult

\* The next call of the script begins.
ScriptPresent(d, up) ==
    /\ ops[d] < Len(Script) /\ Script[ops[d] + 1].op = "Present"
    /\ PresentFindZoneVersion(d, Script[ops[d] + 1].domain, up)

ScriptCleanUp(d, up, emptyBody) ==
    /\ ops[d] < Len(Script) /\ Script[ops[d] + 1].op = "CleanUp"
    /\ CleanUpGetTempVersion(d, Script[ops[d] + 1].domain, up, emptyBody)

NextTwoZones ==
    \E d \in Instances, up \in BOOLEAN :
        \/ ScriptPresent(d, up)
        \/ PresentFindActiveZoneVersion(d, up)
        \/ PresentCreateZoneVersion(d, up)
        \/ PresentGetAllRecords(d, up)
        \/ PresentDuplicateRecord(d, up)
        \/ PresentCreateRecord(d, up)
        \/ PresentEnableZone(d, up)
        \/ \E emptyBody \in BOOLEAN : ScriptCleanUp(d, up, emptyBody)
        \/ \E emptyBody \in BOOLEAN : CleanUpGetRealVersion(d, up, emptyBody)
        \/ CleanUpEnableZone(d, up)
        \/ CleanUpDeleteZoneVersion(d, up)

SpecTwoZones == InitTwoZones /\ [][NextTwoZones]_vars

\* ------------------------------------------------- the client, called directly
\* The client functions as their callers outside Present and CleanUp (the
\* tests of the package) use them: one call at a time on a zone.
\* The record lists of the zone: those above, and the list of the zone file the
\* tests read, where a record of the wanted name and one of the wanted type
\* come before the record of both, and a second record of both follows.
ClientRecordSets ==
    InitRecordSets \cup
    { << Rec("A", "test01", "127.0.0.1", 86400, 0), Rec("TXT", "test04", "v=spf1 -all", 86400, 0),
         Rec("A", "test04", "127.0.0.1", 86400, 0), Rec("A", "test04", "127.0.0.2", 300, 0) >> }

\* The names and types the callers ask for.
VersionNames == Labels \cup InitNames
RecordNames == {"test01", "test04", "@", "absent"}
RecordTypes == {"A", "TXT", "SOA", "CNAME"}

InitClient == InitWith(ClientRecordSets)

Untouched == UNCHANGED <<config, provider, frame, calls, hist, ops, cycles, began, populated, original>>

\* client.FindZoneVersion(ctx, authZone, versionName)
ClientFindZoneVersion(domainName, versionName, up) ==
    /\ LET authZone == FindZoneByFqdn(domainName)
           version == IF up THEN FindZoneVersion(ListAllVersions(authZone), versionName)
                      ELSE ZeroVersion IN
        result' = Returned("FindZoneVersion", <<authZone, versionName>>, ~up, version, ZeroRecord)
    /\ Untouched
    /\ UNCHANGED backend

\* client.GetRecord(ctx, authZone, versionUUID, recordName, recordType)
ClientGetRecord(domainName, versionUUID, recordName, recordType, up) ==
    /\ LET authZone == FindZoneByFqdn(domainName)
           ok == up /\ ExistsVersion(DomainName(authZone), versionUUID)
           record == IF ok THEN GetRecord(records[versionUUID], recordName, recordType)
                     ELSE ZeroRecord IN
        result' = Returned("GetRecord", <<authZone, versionUUID, recordName, recordType>>,
                           ~ok, ZeroVersion, record)
    /\ Untouched
    /\ UNCHANGED backend

\* client.CreateZoneVersion(ctx, authZone, versionName)
ClientCreateZoneVersion(domainName, versionName, up) ==
    /\ allocated < MaxOps
    /\ LET authZone == FindZoneByFqdn(domainName)
           dn == DomainName(authZone)
           jsonResult == IF up THEN NewVersion(CreateZoneVersionPayload(versionName).Name)
                         ELSE ZeroVersion IN
        /\ versions' = IF up THEN [versions EXCEPT ![dn] = Append(@, jsonResult)] ELSE versions
        /\ records' = IF up THEN (jsonResult.UUIDRef :> <<>>) @@ records ELSE records
        /\ allocated' = IF up THEN allocated + 1 ELSE allocated
        /\ result' = Returned("CreateZoneVersion", <<authZone, versionName>>, ~up, jsonResult,
                              ZeroRecord)
    /\ Untouched

NextClient ==
    \E domainName \in Domains, up \in BOOLEAN :
        \/ \E versionName \in VersionNames : ClientFindZoneVersion(domainName, versionName, up)
        \/ \E versionUUID \in DOMAIN records, recordName \in RecordNames, recordType \in RecordTypes :
              ClientGetRecord(domainName, versionUUID, recordName, recordType, up)
        \/ \E versionName \in VersionNames : ClientCreateZoneVersion(domainName, versionName, up)

SpecClient == InitClient /\ [][NextClient]_vars

\* ------------------------------------------------------------- vocabulary
TheDomain == CHOOSE dn \in DomainNames : TRUE

Idle(d) == frame[d].pc = "idle"

\* The environment failed no client call of the running (or last) Present/CleanUp.
NoCallFailed(d) == \A i \in 1..Len(calls[d]) : calls[d][i].up

\* The call the log of d belongs to.
CurOp(d) == IF Idle(d) THEN hist[d].last.op ELSE frame[d].op

CallsNamed(d, names) == {i \in 1..Len(calls[d]) : calls[d][i].call \in names}

UUIDsOf(vs) == {vs[i].UUIDRef : i \in 1..Len(vs)}

ActiveUUIDsOf(vs) == {vs[i].UUIDRef : i \in {j \in 1..Len(vs) : vs[j].Active}}

NamesOf(vs) == {vs[i].Name : i \in 1..Len(vs)}

\* The same record but for the priority, which CreateRecord always overwrites.
SameRecord(a, b) ==
    a.Type = b.Type /\ a.Name = b.Name /\ a.Value = b.Value /\ a.TTL = b.TTL

Holds(rs, r) == \E i \in 1..Len(rs) : SameRecord(rs[i], r)

\* The last call of d, a Present, met a zone with one active version and no
\* version named by the configured label, and none of its client calls failed.
PresentedCleanly(d) ==
    /\ Idle(d) /\ hist[d].last.op = "Present" /\ NoCallFailed(d)
    /\ Cardinality(ActiveUUIDsOf(began[d].versions)) = 1
    /\ config.TempZoneVersionName \notin NamesOf(began[d].versions)

\* The last two calls of d were a Present that returned nil and a CleanUp
\* none of whose client calls failed.
CleanedUpAfterPresent(d) ==
    /\ Idle(d) /\ hist[d].prev.op = "Present" /\ hist[d].prev.ret = "ok"
    /\ hist[d].last.op = "CleanUp" /\ NoCallFailed(d)

\* The provider is used on a zone that is served: one version of it is active.
InitServed == Init /\ Cardinality(ActiveUUIDsOf(original)) = 1

SpecServed == InitServed /\ [][Next]_vars

\* ------------------------------------------------------------------ claims
\* C1: from a zone with one active version V1 and no version of the temporary
\* label, a Present with no failing call returns nil, has created a version V2
\* that holds every allow-listed record of V1 and the challenge TXT record, and
\* V2 is the active version; a CleanUp with no failing call after a Present
\* that returned nil returns nil, leaves V1 active and V2 is gone.
C1_PresentThenCleanUp ==
    \A d \in Instances :
        /\ PresentedCleanly(d) =>
              LET V1 == hist[d].last.before
                  V2 == provider[d].tempVersionUUID IN
                /\ hist[d].last.ret = "ok"
                /\ V2 \notin UUIDsOf(began[d].versions)
                /\ UUIDsOf(versions[TheDomain]) = UUIDsOf(began[d].versions) \cup {V2}
                /\ \A i \in 1..Len(records[V1]) :
                      records[V1][i].Type \in AllowList => Holds(records[V2], records[V1][i])
                /\ Holds(records[V2], ChallengeRecord(FindZoneByFqdn(TheDomain)))
                /\ ActiveUUIDsOf(versions[TheDomain]) = {V2}
        /\ CleanedUpAfterPresent(d) =>
              /\ hist[d].last.ret = "ok"
              /\ ActiveUUIDsOf(versions[TheDomain]) = {hist[d].prev.before}
              /\ hist[d].last.before \notin UUIDsOf(versions[TheDomain])
              /\ UUIDsOf(versions[TheDomain]) = UUIDsOf(began[d].versions) \ {hist[d].last.before}

\* C1 witness: a Present and a CleanUp have both run as the claim says, and
\* the version restored holds allow-listed records.
C1_Witness ==
    \E d \in Instances :
        /\ CleanedUpAfterPresent(d) /\ ops[d] = 2
        /\ hist[d].prev.before \in DOMAIN records
        /\ \E i \in 1..Len(records[hist[d].prev.before]) :
              records[hist[d].prev.before][i].Type = "TXT"


\* C2: for every configured label, a Present that follows a Present that
\* returned nil, with no CleanUp in between and its listing answered, returns
\* the error of the guard and creates no further version.
C2_SecondPresentConflicts ==
    \A d \in Instances :
        /\ ~(frame[d].op = "Present" /\ hist[d].last.op = "Present" /\ hist[d].last.ret = "ok")
        /\ (/\ Idle(d) /\ hist[d].last.op = "Present" /\ NoCallFailed(d)
            /\ hist[d].prev.op = "Present" /\ hist[d].prev.ret = "ok")
           => /\ hist[d].last.ret = "version already exists"
              /\ UUIDsOf(versions[TheDomain]) = UUIDsOf(began[d].versions)

\* C3: FindActiveZoneVersion returns the active version of the listing when
\* there is one, and with none active it faults on no index: Present returns
\* the error of its step 3, having created no version.
C3_NoActiveVersionIsAnError ==
    \A d \in Instances :
        /\ frame[d].pc # "panic"
        /\ frame[d].pc = "CreateZoneVersion" =>
              /\ frame[d].activeZoneVersion.Active
              /\ frame[d].activeZoneVersion.UUIDRef \in ActiveUUIDsOf(versions[TheDomain])
        /\ (/\ Idle(d) /\ hist[d].last.op = "Present" /\ NoCallFailed(d)
            /\ Len(calls[d]) = 2 /\ ActiveUUIDsOf(began[d].versions) = {})
           => /\ hist[d].last.ret = "unable to find active version"
              /\ UUIDsOf(versions[TheDomain]) = UUIDsOf(began[d].versions)

\* The source records DuplicateZoneVersionRecords has issued a create for.
Duplicated(d) ==
    [i \in 1..Cardinality({j \in 1..Len(calls[d]) : calls[d][j].step = "duplicate"
                                                     /\ calls[d][j].call = "CreateRecord"}) |->
        calls[d][CHOOSE j \in 1..Len(calls[d]) :
                    /\ calls[d][j].step = "duplicate" /\ calls[d][j].call = "CreateRecord"
                    /\ Cardinality({k \in 1..j : calls[d][k].step = "duplicate"
                                                  /\ calls[d][k].call = "CreateRecord"}) = i].record]

\* C4: when DuplicateZoneVersionRecords has run with no call failing, it has
\* issued a create for exactly the source records whose type is one of A,
\* AAAA, CNAME, MX, SRV, TXT, in source order.
C4_OnlyAllowListedTypesCopied ==
    \A d \in Instances :
        (frame[d].op = "Present" /\ frame[d].pc \in {"CreateRecord", "EnableZone"}) =>
            Duplicated(d) = SelectSeq(records[frame[d].activeZoneVersion.UUIDRef],
                                      LAMBDA r : r.Type \in AllowList)

\* The place of each step in Present.
StepRank(step) ==
    CASE step = "guard" -> 1
      [] step = "find-active" -> 2
      [] step = "create-version" -> 3
      [] step = "duplicate" -> 4
      [] step = "challenge" -> 5
      [] step = "enable" -> 6

\* The error Present returns when a call of the step fails.
StepError(step) ==
    CASE step = "guard" -> "unable to verify version"
      [] step = "find-active" -> "unable to find active version"
      [] step = "create-version" -> "unable to create temporary version"
      [] step = "duplicate" -> "unable to duplicate records"
      [] step = "challenge" -> "unable to create record"
      [] step = "enable" -> "unable to enable version"

\* C5: the client calls of a Present come in the order guard, find-active,
\* create-version, duplicate, challenge, enable, no step left out; after a
\* call that returned an error there is no further call, and Present returns
\* the error of that step.
C5_PresentStopsAtFirstFailure ==
    \A d \in Instances :
        CurOp(d) = "Present" =>
            /\ \A i \in 1..Len(calls[d]) :
                  /\ i = 1 => calls[d][i].step = "guard"
                  /\ i > 1 =>
                        LET a == StepRank(calls[d][i - 1].step)
                            b == StepRank(calls[d][i].step) IN
                            /\ calls[d][i - 1].ok
                            /\ b = a + 1 \/ (b = a /\ calls[d][i].step = "duplicate")
            /\ (Idle(d) /\ ~calls[d][Len(calls[d])].ok) =>
                  hist[d].last.ret = StepError(calls[d][Len(calls[d])].step)
            /\ (Idle(d) /\ hist[d].last.ret = "ok") =>
                  calls[d][Len(calls[d])].step = "enable"

\* C5 witness: a Present whose duplication failed after a record was copied
\* has returned, with nothing enabled.
C5_Witness ==
    \E d \in Instances :
        /\ Idle(d) /\ hist[d].last.op = "Present"
        /\ hist[d].last.ret = "unable to duplicate records"
        /\ Len(calls[d]) > 4
        /\ ActiveUUIDsOf(versions[TheDomain]) = {hist[d].last.before}


\* The client calls of the running (or last) call of d that change the zone.
Changing(d) == CallsNamed(d, {"EnableZone", "DeleteZoneVersion"})

\* C6: a CleanUp on an instance whose tempVersionUUID no Present has assigned
\* returns an error at its first step, having made no EnableZone and no
\* DeleteZoneVersion call and changed nothing, whatever the zone holds.
C6_CleanUpWithoutPresent ==
    \A d \in Instances :
        (CurOp(d) = "CleanUp" /\ populated[d].temp = "never") =>
            /\ provider[d].tempVersionUUID = ""
            /\ Idle(d)
            /\ hist[d].last.ret \in {"unable to fetch temporary version",
                                     "no temporary version found"}
            /\ Len(calls[d]) = 1 /\ Changing(d) = {}
            /\ versions[TheDomain] = began[d].versions

\* C6 witness: such a CleanUp has returned on a zone that holds a version,
\* with the backend answering.
C6_Witness ==
    \E d \in Instances :
        /\ Idle(d) /\ hist[d].last.op = "CleanUp" /\ populated[d].temp = "never"
        /\ NoCallFailed(d) /\ versions[TheDomain] # <<>>

\* C7: CleanUp makes an EnableZone or DeleteZoneVersion call only when both
\* UUID fields were assigned by a Present that returned nil.
C7_CleanUpOnlyAfterSuccessfulPresent ==
    \A d \in Instances :
        (CurOp(d) = "CleanUp" /\ Changing(d) # {}) =>
            populated[d].active = "ok" /\ populated[d].temp = "ok"

\* The last call of d is a CleanUp that followed a Present that returned nil.
CleanUpAfterPresent(d) ==
    /\ Idle(d) /\ hist[d].last.op = "CleanUp"
    /\ hist[d].prev.op = "Present" /\ hist[d].prev.ret = "ok"

LastCall(d) == calls[d][Len(calls[d])]

\* C8: in a CleanUp after a Present that returned nil, a failed EnableZone
\* makes CleanUp return its error with no DeleteZoneVersion call, the temporary
\* version still there and active; a failed DeleteZoneVersion after the
\* EnableZone makes CleanUp return its error with the temporary version still
\* there, inactive, and the original active; the failed call is made once.
C8_CleanUpFailures ==
    \A d \in Instances :
        CleanUpAfterPresent(d) =>
            LET temp == provider[d].tempVersionUUID
                real == provider[d].activeVersionUUID IN
                /\ (LastCall(d).call = "EnableZone" /\ ~LastCall(d).ok) =>
                      /\ hist[d].last.ret = "unable to enable back version"
                      /\ CallsNamed(d, {"DeleteZoneVersion"}) = {}
                      /\ Cardinality(CallsNamed(d, {"EnableZone"})) = 1
                      /\ temp \in UUIDsOf(versions[TheDomain])
                      /\ ActiveUUIDsOf(versions[TheDomain]) = {temp}
                /\ (LastCall(d).call = "DeleteZoneVersion" /\ ~LastCall(d).ok) =>
                      /\ hist[d].last.ret = "unable to delete version"
                      /\ Cardinality(CallsNamed(d, {"DeleteZoneVersion"})) = 1
                      /\ Cardinality(CallsNamed(d, {"EnableZone"})) = 1
                      /\ temp \in UUIDsOf(versions[TheDomain])
                      /\ real = hist[d].prev.before
                      /\ ActiveUUIDsOf(versions[TheDomain]) = {real}
                      /\ temp # real

\* C8 witness: a CleanUp after a successful Present has failed in its EnableZone.
C8_Witness ==
    \E d \in Instances :
        CleanUpAfterPresent(d) /\ LastCall(d).call = "EnableZone" /\ ~LastCall(d).ok

\* C8 witness, the other case: it has failed in its DeleteZoneVersion.
C8_WitnessDelete ==
    \E d \in Instances :
        CleanUpAfterPresent(d) /\ LastCall(d).call = "DeleteZoneVersion" /\ ~LastCall(d).ok

\* C9: after a Present that returned nil and a CleanUp that returned nil, a
\* second CleanUp with no Present in between gets no further than its first
\* step, returns an error, makes no EnableZone and no DeleteZoneVersion call,
\* and leaves the versions of the zone as they were, the original version
\* active.
C9_SecondCleanUpFails ==
    \A d \in Instances :
        LET p == IF Idle(d) THEN hist[d].prev ELSE hist[d].last
            q == IF Idle(d) THEN hist[d].prev2 ELSE hist[d].prev IN
            ( /\ CurOp(d) = "CleanUp"
              /\ p.op = "CleanUp" /\ p.ret = "ok"
              /\ q.op = "Present" /\ q.ret = "ok" ) =>
                 /\ frame[d].pc = "idle"
                 /\ hist[d].last.ret \in {"unable to fetch temporary version",
                                          "no temporary version found"}
                 /\ Changing(d) = {}
                 /\ versions[TheDomain] = began[d].versions
                 /\ ActiveUUIDsOf(versions[TheDomain]) = {provider[d].activeVersionUUID}
                 /\ provider[d].activeVersionUUID = q.before

\* C9 witness: the second CleanUp has returned, the backend having answered it.
C9_Witness ==
    \E d \in Instances :
        /\ Idle(d) /\ hist[d].last.op = "CleanUp" /\ NoCallFailed(d)
        /\ hist[d].prev.op = "CleanUp" /\ hist[d].prev.ret = "ok"
        /\ hist[d].prev2.op = "Present" /\ hist[d].prev2.ret = "ok"

\* C10: every run of Present/CleanUp cycles that all returned nil ends with
\* the versions of the zone as they were at first (the original active, no
\* temporary version left), and a Present after a Present and a CleanUp that
\* returned nil, with no failing call, returns nil again.
C10_BackToIdle ==
    \A d \in Instances :
        /\ (cycles[d] /\ Idle(d) /\ hist[d].last.op = "CleanUp") =>
              /\ versions[TheDomain] = original
              /\ provider[d].tempVersionUUID \notin UUIDsOf(versions[TheDomain])
              /\ ActiveUUIDsOf(versions[TheDomain]) = {provider[d].activeVersionUUID}
        /\ ( /\ CurOp(d) = "Present" /\ NoCallFailed(d)
             /\ LET p == IF Idle(d) THEN hist[d].prev ELSE hist[d].last
                    q == IF Idle(d) THEN hist[d].prev2 ELSE hist[d].prev IN
                    /\ p.op = "CleanUp" /\ p.ret = "ok"
                    /\ q.op = "Present" /\ q.ret = "ok" ) =>
              /\ frame[d].pc # "panic"
              /\ Idle(d) => hist[d].last.ret = "ok"

\* C10 witness: a Present has returned nil after a Present and a CleanUp that
\* returned nil.
C10_Witness ==
    \E d \in Instances :
        /\ Idle(d) /\ hist[d].last.op = "Present" /\ hist[d].last.ret = "ok"
        /\ hist[d].prev.op = "CleanUp" /\ hist[d].prev.ret = "ok"
        /\ hist[d].prev2.op = "Present" /\ hist[d].prev2.ret = "ok"
        /\ versions[TheDomain] # original

PostedAllowListed(rs) ==
    LET sel == SelectSeq(rs, LAMBDA r : r.Type \in AllowList) IN
        [i \in 1..Len(sel) |-> CreateRecordPayload(DuplicateOf(sel[i]))]

\* C12: when a CreateRecord of DuplicateZoneVersionRecords fails, Present
\* returns the duplication error at once, and the target version holds exactly
\* the allow-listed (A, AAAA, CNAME, MX, SRV, TXT) source records that come
\* before the failing one, in source order.
C12_DuplicateStopsAtFirstFailure ==
    \A d \in Instances :
        ( /\ CurOp(d) = "Present" /\ calls[d] # <<>>
          /\ LastCall(d).step = "duplicate" /\ LastCall(d).call = "CreateRecord"
          /\ ~LastCall(d).ok ) =>
            LET source == records[provider[d].activeVersionUUID]
                k == CHOOSE i \in 1..Len(source) : source[i] = LastCall(d).record IN
                /\ Idle(d) /\ hist[d].last.ret = "unable to duplicate records"
                /\ records[provider[d].tempVersionUUID] = PostedAllowListed(SubSeq(source, 1, k - 1))

\* The places of the listed versions of the given name.
Named(vs, versionName) == {i \in 1..Len(vs) : vs[i].Name = versionName}

\* C13: FindZoneVersion, when the listing succeeds, returns no error and the
\* first listed version of the requested name, and the zero Version when no
\* listed version has that name, whatever the listing holds.
C13_FindZoneVersionFirstOrZero ==
    (result.call = "FindZoneVersion" /\ ~result.err) =>
        LET vs == versions[DomainName(result.args[1])]
            hits == Named(vs, result.args[2]) IN
            /\ hits = {} => result.version = ZeroVersion
            /\ hits # {} =>
                  \E i \in hits : /\ result.version = vs[i]
                                  /\ \A j \in hits : i <= j

\* C13 witness: the name was asked of a listing with two versions of that name
\* after one of another name.
C13_Witness ==
    /\ result.call = "FindZoneVersion" /\ ~result.err
    /\ LET vs == versions[DomainName(result.args[1])] IN
          /\ Cardinality(Named(vs, result.args[2])) >= 2
          /\ 1 \notin Named(vs, result.args[2])

\* C13 witness, no match: the name was asked of a non-empty listing without it.
C13_WitnessZero ==
    /\ result.call = "FindZoneVersion" /\ ~result.err
    /\ LET vs == versions[DomainName(result.args[1])] IN
          vs # <<>> /\ Named(vs, result.args[2]) = {}

\* The places of the records of the given name and type.
Matching(rs, recordName, recordType) ==
    {i \in 1..Len(rs) : rs[i].Name = recordName /\ rs[i].Type = recordType}

\* C14: GetRecord, when the records are read, returns no error and the first
\* record, in list order, whose name and type both equal those requested, and
\* the zero Record when no record matches both.
C14_GetRecordFirstOfBothOrZero ==
    (result.call = "GetRecord" /\ ~result.err) =>
        LET rs == records[result.args[2]]
            hits == Matching(rs, result.args[3], result.args[4]) IN
            /\ hits = {} => result.record = ZeroRecord
            /\ hits # {} =>
                  \E i \in hits : /\ result.record = rs[i]
                                  /\ \A j \in hits : i <= j
            /\ result.record # ZeroRecord =>
                  result.record.Name = result.args[3] /\ result.record.Type = result.args[4]

\* C14 witness: the record asked for comes after a record of its type and a
\* record of its name, and before another record of both.
C14_Witness ==
    /\ result.call = "GetRecord" /\ ~result.err
    /\ LET rs == records[result.args[2]]
           hits == Matching(rs, result.args[3], result.args[4]) IN
          /\ Cardinality(hits) = 2
          /\ \E k \in hits :
                /\ \E i \in 1..(k - 1) : rs[i].Name = result.args[3] /\ i \notin hits
                /\ \E i \in 1..(k - 1) : rs[i].Type = result.args[4] /\ i \notin hits
                /\ \A j \in hits : k <= j

\* C14 witness, no match: records of the name and of the type, none of both.
C14_WitnessZero ==
    /\ result.call = "GetRecord" /\ ~result.err
    /\ LET rs == records[result.args[2]] IN
          /\ Matching(rs, result.args[3], result.args[4]) = {}
          /\ \E i \in 1..Len(rs) : rs[i].Name = result.args[3]
          /\ \E i \in 1..Len(rs) : rs[i].Type = result.args[4]

\* C15: the version CreateZoneVersion creates in Present is named "lego_tmp"
\* whatever label is configured: the request carries that name for every
\* requested name.
C15_CreatedVersionIsNamedLegoTmp ==
    /\ \A dn \in DomainNames : \A i \in 1..Len(versions[dn]) :
          versions[dn][i].UUIDRef \notin UUIDsOf(original) => versions[dn][i].Name = "lego_tmp"
    /\ \A d \in Instances :
          (frame[d].op = "Present" /\ frame[d].temporaryVersion # ZeroVersion) =>
              frame[d].temporaryVersion.Name = "lego_tmp"
    /\ \A versionName \in VersionNames : CreateZoneVersionPayload(versionName).Name = "lego_tmp"

\* C15 witness: a Present configured with another label has created its version.
C15_Witness ==
    \E d \in Instances :
        /\ config.TempZoneVersionName # "lego_tmp"
        /\ frame[d].op = "Present" /\ frame[d].temporaryVersion # ZeroVersion
        /\ provider[d].tempVersionUUID \in UUIDsOf(versions[TheDomain])

\* The versions of the zone that a Present created.
CreatedUUIDs(dn) == UUIDsOf(versions[dn]) \ UUIDsOf(original)

\* C16: records are created in the temporary version only while it is not
\* active: in a Present every CreateRecord call comes before the EnableZone
\* call, a CreateRecord is about to be issued only for a version that is not
\* active, and whenever a version a Present created is active it holds the
\* challenge TXT record.  CleanUp makes no CreateRecord call.
C16_RecordsWrittenBeforeEnable ==
    /\ \A d \in Instances :
          /\ \A i \in CallsNamed(d, {"CreateRecord"}), j \in CallsNamed(d, {"EnableZone"}) : i < j
          /\ CallsNamed(d, {"CreateRecord"}) # {} => CurOp(d) = "Present"
          /\ frame[d].pc \in {"DuplicateRecord", "CreateRecord"} =>
                /\ frame[d].temporaryVersion.UUIDRef \notin ActiveUUIDsOf(versions[TheDomain])
                /\ frame[d].temporaryVersion.UUIDRef = provider[d].tempVersionUUID
          /\ \A i \in CallsNamed(d, {"CreateRecord"}) :
                calls[d][i].uuid = provider[d].tempVersionUUID
    /\ \A dn \in DomainNames : \A u \in ActiveUUIDsOf(versions[dn]) \cap CreatedUUIDs(dn) :
          Holds(records[u], ChallengeRecord(FindZoneByFqdn(dn)))

\* C16 witness: a Present has enabled the version it created, after copying
\* records into it.
C16_Witness ==
    \E d \in Instances :
        /\ Idle(d) /\ hist[d].last.op = "Present" /\ hist[d].last.ret = "ok"
        /\ Cardinality(CallsNamed(d, {"CreateRecord"})) >= 2
        /\ provider[d].tempVersionUUID \in ActiveUUIDsOf(versions[TheDomain])

\* C17: a Present whose listing shows a version of the configured label is
\* rejected by the guard; a Present that the guard rejects has made the one
\* listing call and changed neither the backend nor the two UUID fields; after a Present that
\* returned nil the fields still name the original and the temporary version,
\* and the CleanUp that follows, with no call failing, re-enables the original
\* version and deletes the temporary one.
C17_RejectedPresentChangesNothing ==
    \A d \in Instances :
        /\ ( /\ CurOp(d) = "Present" /\ calls[d][1].up
             /\ config.TempZoneVersionName \in NamesOf(began[d].versions) ) =>
              Idle(d) /\ hist[d].last.ret = "version already exists"
        /\ (Idle(d) /\ hist[d].last.op = "Present" /\ hist[d].last.ret = "version already exists") =>
              /\ Len(calls[d]) = 1 /\ calls[d][1].call = "ListAllVersions"
              /\ versions[TheDomain] = began[d].versions
              /\ records = began[d].records
              /\ provider[d] = began[d].provider
              /\ (hist[d].prev.op = "Present" /\ hist[d].prev.ret = "ok") =>
                    /\ provider[d].activeVersionUUID = hist[d].prev.before
                    /\ ActiveUUIDsOf(versions[TheDomain]) = {provider[d].tempVersionUUID}
        /\ ( /\ Idle(d) /\ hist[d].last.op = "CleanUp" /\ NoCallFailed(d)
             /\ hist[d].prev.op = "Present" /\ hist[d].prev.ret = "version already exists"
             /\ hist[d].prev2.op = "Present" /\ hist[d].prev2.ret = "ok" ) =>
              /\ hist[d].last.ret = "ok"
              /\ ActiveUUIDsOf(versions[TheDomain]) = {hist[d].prev2.before}
              /\ provider[d].tempVersionUUID \notin UUIDsOf(versions[TheDomain])
              /\ UUIDsOf(versions[TheDomain]) =
                    UUIDsOf(began[d].versions) \ {provider[d].tempVersionUUID}
              /\ calls[d][Len(calls[d]) - 1].call = "EnableZone"
              /\ calls[d][Len(calls[d]) - 1].uuid = hist[d].prev2.before
              /\ LastCall(d).call = "DeleteZoneVersion"
              /\ LastCall(d).uuid = hist[d].last.before

\* C17 witness: a Present that returned nil, a Present the guard rejected, and
\* a CleanUp that returned nil.
C17_Witness ==
    \E d \in Instances :
        /\ Idle(d) /\ hist[d].last.op = "CleanUp" /\ hist[d].last.ret = "ok"
        /\ hist[d].prev.op = "Present" /\ hist[d].prev.ret = "version already exists"
        /\ hist[d].prev2.op = "Present" /\ hist[d].prev2.ret = "ok"

\* C18: no step of Present or CleanUp writes or removes the records of a
\* version the zone held before the provider was used; the only records a step
\* writes are those of the version the running Present created, which is
\* neither a version the zone held when that Present began nor the version
\* that was active then (the source of the copy).
C18_OriginalRecordsNeverWritten ==
    [][\A u \in DOMAIN records :
          /\ u \in UUIDsOf(original) => u \in DOMAIN records' /\ records'[u] = records[u]
          /\ (u \in DOMAIN records' /\ records'[u] # records[u]) =>
                \E d \in Instances :
                    /\ frame[d].op = "Present"
                    /\ u = frame[d].temporaryVersion.UUIDRef
                    /\ u \notin UUIDsOf(began[d].versions)
                    /\ u # provider[d].activeVersionUUID]_vars

\* C18 witness: after a Present that copied records and wrote the challenge
\* record and a CleanUp, the version that was active before is active again.
C18_Witness ==
    \E d \in Instances :
        /\ Idle(d) /\ hist[d].last.op = "CleanUp" /\ hist[d].last.ret = "ok"
        /\ hist[d].prev.op = "Present" /\ hist[d].prev.ret = "ok"
        /\ ActiveUUIDsOf(versions[TheDomain]) = {hist[d].prev.before}
        /\ hist[d].prev.before \in UUIDsOf(original)
        /\ records[hist[d].prev.before] # <<>>

\* The errors Present returns after it has created the temporary version.
ErrorsAfterCreate ==
    {"unable to duplicate records", "unable to create record", "unable to enable version"}

\* C19: after a Present that returned an error the version that was active
\* before it is still the active one; if the error came after
\* CreateZoneVersion, the created version is in the zone, inactive, and the
\* next Present for the zone, its listing answered, is rejected by the guard.
C19_FailedPresentLeavesGuardedOrphan ==
    \A d \in Instances :
        /\ (Idle(d) /\ hist[d].last.op = "Present" /\ hist[d].last.ret # "ok") =>
              /\ ActiveUUIDsOf(versions[TheDomain]) = ActiveUUIDsOf(began[d].versions)
              /\ hist[d].last.ret \in ErrorsAfterCreate =>
                    /\ provider[d].tempVersionUUID \in UUIDsOf(versions[TheDomain])
                    /\ provider[d].tempVersionUUID \notin UUIDsOf(began[d].versions)
                    /\ provider[d].tempVersionUUID \notin ActiveUUIDsOf(versions[TheDomain])
        /\ LET p == IF Idle(d) THEN hist[d].prev ELSE hist[d].last IN
              ( /\ CurOp(d) = "Present" /\ calls[d][1].up
                /\ p.op = "Present" /\ p.ret \in ErrorsAfterCreate ) =>
                  Idle(d) /\ hist[d].last.ret = "version already exists"

\* C20: when two provider instances configured with the default label each
\* run a Present for the same zone, their client calls interleaved, at most
\* one of them passes the guard and creates a version, and the zone never
\* holds two versions of the label.
C20_GuardKeepsTemporaryVersionUnique ==
    config.TempZoneVersionName = DefaultTempZoneVersionName =>
        /\ Cardinality({d \in TwoInstances : provider[d].tempVersionUUID # ""}) <= 1
        /\ \A dn \in DomainNames :
              Cardinality(Named(versions[dn], config.TempZoneVersionName)) <= 1

\* C21: one instance runs Present for zone A, Present for zone B, CleanUp for
\* zone A and CleanUp for zone B.  Each CleanUp enables and deletes versions of
\* its own zone only; with both Presents having returned nil and no call of
\* the CleanUp failing, the CleanUp for zone A leaves zone A with the version
\* active that was active before its Present and with no created version, and
\* so does the CleanUp for zone B with zone B.
C21_TwoZonesInTurn ==
    \A d \in Instances :
        /\ CurOp(d) = "CleanUp" =>
              \A i \in Changing(d) : calls[d][i].uuid \in UUIDsOf(began[d].versions)
        /\ ( /\ Idle(d) /\ ops[d] = 3 /\ hist[d].last.op = "CleanUp" /\ NoCallFailed(d)
             /\ hist[d].prev2.op = "Present" /\ hist[d].prev2.ret = "ok"
             /\ hist[d].prev.op = "Present" /\ hist[d].prev.ret = "ok" ) =>
              /\ hist[d].last.ret = "ok"
              /\ CreatedUUIDs(ZoneOf(Script[3].domain)) = {}
              /\ ActiveUUIDsOf(versions[ZoneOf(Script[3].domain)]) = {hist[d].prev2.before}
        /\ ( /\ Idle(d) /\ ops[d] = 4 /\ hist[d].last.op = "CleanUp" /\ NoCallFailed(d)
             /\ hist[d].prev2.op = "Present" /\ hist[d].prev2.ret = "ok" ) =>
              /\ hist[d].last.ret = "ok"
              /\ CreatedUUIDs(ZoneOf(Script[4].domain)) = {}
              /\ ActiveUUIDsOf(versions[ZoneOf(Script[4].domain)]) = {hist[d].prev2.before}

====
